---- MODULE Spec2Model ----
(***************************************************************************)
(* Model of src/main.py: the EWMA streaming anomaly detector               *)
(* (validate_params, anomaly_detection) and the per-frame callback        *)
(* main.update that owns the running state (ewma, ewma_std).               *)
(*                                                                         *)
(* Numbers.  The code computes on Python floats.  The model computes on   *)
(* exact decimal numbers of unbounded size (a sign, a digit string and a  *)
(* decimal exponent), so every value the claims name (0.3, 1.5, 58.9, ...) *)
(* is represented exactly; IEEE-754 rounding and overflow are not          *)
(* modelled.  np.sqrt is modelled symbolically: a standard deviation is    *)
(* kept as a sign together with its square.                                *)
(***************************************************************************)
EXTENDS Integers, Sequences, FiniteSets

(***************************************************************************)
(* Natural numbers of unbounded size: decimal digits, least significant    *)
(* first, no leading zero digit; zero is the empty sequence.               *)
(***************************************************************************)
RECURSIVE NatTrim(_)
NatTrim(s) ==
    IF s = <<>> THEN s
    ELSE IF s[Len(s)] = 0 THEN NatTrim(SubSeq(s, 1, Len(s) - 1))
    ELSE s

RECURSIVE NatOf(_)
NatOf(n) ==
    IF n = 0 THEN <<>> ELSE <<n % 10>> \o NatOf(n \div 10)

Digit(s, i) ==
    IF i <= Len(s) THEN s[i] ELSE 0

MaxOf(a, b) ==
    IF a >= b THEN a ELSE b

MinOf(a, b) ==
    IF a <= b THEN a ELSE b

\* cols[i..] plus the incoming carry c (all >= 0), as digits
RECURSIVE Carry(_, _, _)
Carry(cols, i, c) ==
    IF i > Len(cols)
    THEN IF c = 0 THEN <<>> ELSE <<c % 10>> \o Carry(cols, i, c \div 10)
    ELSE LET t == cols[i] + c
         IN  <<t % 10>> \o Carry(cols, i + 1, t \div 10)

NatAdd(a, b) ==
    NatTrim(Carry([i \in 1..MaxOf(Len(a), Len(b)) |-> Digit(a, i) + Digit(b, i)], 1, 0))

\* a - b for a >= b; c is the borrow (0 or 1)
RECURSIVE Borrow(_, _, _, _)
Borrow(a, b, i, c) ==
    IF i > Len(a) THEN <<>>
    ELSE LET t == a[i] - Digit(b, i) - c
         IN  IF t < 0 THEN <<t + 10>> \o Borrow(a, b, i + 1, 1)
             ELSE <<t>> \o Borrow(a, b, i + 1, 0)

NatSub(a, b) ==
    NatTrim(Borrow(a, b, 1, 0))

\* a < b, comparing equal-length digit strings from digit i downwards
RECURSIVE LessFrom(_, _, _)
LessFrom(a, b, i) ==
    IF i = 0 THEN FALSE
    ELSE IF a[i] # b[i] THEN a[i] < b[i]
    ELSE LessFrom(a, b, i - 1)

NatLess(a, b) ==
    IF Len(a) # Len(b) THEN Len(a) < Len(b) ELSE LessFrom(a, b, Len(a))

\* sum of a[i] * b[k+1-i] for i in lo..hi
RECURSIVE ColSum(_, _, _, _, _)
ColSum(a, b, k, lo, hi) ==
    IF lo > hi THEN 0
    ELSE a[lo] * b[k + 1 - lo] + ColSum(a, b, k, lo + 1, hi)

NatMul(a, b) ==
    IF a = <<>> \/ b = <<>> THEN <<>>
    ELSE NatTrim(Carry([k \in 1..(Len(a) + Len(b) - 1) |->
                          ColSum(a, b, k, MaxOf(1, k + 1 - Len(b)), MinOf(Len(a), k))],
                       1, 0))

(***************************************************************************)
(* Finite real numbers: (-1)^neg * mant * 10^(-exp), in canonical form     *)
(* (no trailing fractional zero; zero is positive with exponent 0), so     *)
(* equal numbers are equal records.                                        *)
(***************************************************************************)
Zero ==
    [neg |-> FALSE, mant |-> <<>>, exp |-> 0]

RECURSIVE DecNorm(_, _, _)
DecNorm(neg, mant, exp) ==
    IF mant = <<>> THEN Zero
    ELSE IF exp > 0 /\ mant[1] = 0 THEN DecNorm(neg, Tail(mant), exp - 1)
    ELSE [neg |-> neg, mant |-> mant, exp |-> exp]

\* the number n / 10^e, n an integer literal
Dec(n, e) ==
    DecNorm(n < 0, NatOf(IF n < 0 THEN -n ELSE n), e)

\* mant * 10^j
RECURSIVE ShiftLeft(_, _)
ShiftLeft(mant, j) ==
    IF j = 0 \/ mant = <<>> THEN mant ELSE ShiftLeft(<<0>> \o mant, j - 1)

DecNeg(a) ==
    IF a.mant = <<>> THEN a ELSE [a EXCEPT !.neg = ~a.neg]

DecAbs(a) ==
    [a EXCEPT !.neg = FALSE]

DecAdd(a, b) ==
    LET e  == MaxOf(a.exp, b.exp)
        ma == ShiftLeft(a.mant, e - a.exp)
        mb == ShiftLeft(b.mant, e - b.exp)
    IN  IF a.neg = b.neg THEN DecNorm(a.neg, NatAdd(ma, mb), e)
        ELSE IF NatLess(ma, mb) THEN DecNorm(b.neg, NatSub(mb, ma), e)
        ELSE DecNorm(a.neg, NatSub(ma, mb), e)

DecSub(a, b) ==
    DecAdd(a, DecNeg(b))

DecMul(a, b) ==
    DecNorm(a.neg # b.neg, NatMul(a.mant, b.mant), a.exp + b.exp)

DecSq(a) ==
    DecMul(a, a)

DecLess(a, b) ==
    DecSub(a, b).neg

DecLeq(a, b) ==
    ~DecLess(b, a)

One ==
    Dec(1, 0)

(***************************************************************************)
(* A standard deviation as np.sqrt returns it: sgn * sqrt(sq), sq >= 0.    *)
(* A caller may pass any real as ewma_std, so sgn = -1 is representable.   *)
(***************************************************************************)
\* np.sqrt(x) for x >= 0: the non-negative root
Sqrt(x) ==
    [sgn |-> IF x = Zero THEN 0 ELSE 1, sq |-> x]

\* the real number s as a standard deviation value (s = sgn * sqrt(s^2))
StdOf(s) ==
    [sgn |-> IF s = Zero THEN 0 ELSE IF s.neg THEN -1 ELSE 1, sq |-> DecSq(s)]

\* c * s for a real c
Scale(c, s) ==
    [sgn |-> IF c = Zero THEN 0 ELSE IF c.neg THEN -(s.sgn) ELSE s.sgn,
     sq  |-> IF c = Zero THEN Zero ELSE DecMul(DecSq(c), s.sq)]

\* faulty variant: the comparison is not strict (a >= t)
ExceedsOrEqual(a, t) ==
    IF a.neg
    THEN t.sgn < 0 /\ DecLeq(DecSq(a), t.sq)
    ELSE t.sgn < 0 \/ DecLeq(t.sq, DecSq(a))

\* faulty variant: the comparison is turned round (a < t)
ExceedsReversed(a, t) ==
    IF a.neg
    THEN t.sgn >= 0 \/ DecLess(t.sq, DecSq(a))
    ELSE t.sgn > 0 /\ DecLess(DecSq(a), t.sq)

\* a > t for a real a
Exceeds(a, t) ==
    IF a.neg
    THEN t.sgn < 0 /\ DecLess(DecSq(a), t.sq)
    ELSE t.sgn < 0 \/ DecLess(t.sq, DecSq(a))

(***************************************************************************)
(* Samples: what the caller may pass as `value`.                           *)
(***************************************************************************)
Num(d) ==
    [kind |-> "num", val |-> d]

NaN ==
    [kind |-> "nan", val |-> Zero]

PosInf ==
    [kind |-> "inf", val |-> One]

NegInf ==
    [kind |-> "inf", val |-> DecNeg(One)]

\* a value that is no int or float (a str, None, ...)
NotNumber ==
    [kind |-> "str", val |-> Zero]

NoSample ==
    [kind |-> "none", val |-> Zero]

(***************************************************************************)
(* validate_params: "ok", or the ValueError it raises.                     *)
(***************************************************************************)
validate_params(v, m, sd, b, k) ==
    IF v.kind # "num" THEN "ValueError: Invalid data value"
    ELSE IF ~(DecLess(Zero, b) /\ DecLess(b, One)) THEN "ValueError: Invalid beta value"
    ELSE IF DecLeq(k, Zero) THEN "ValueError: Threshold multiplier must be positive"
    ELSE IF sd.sgn < 0 THEN "ValueError: Invalid EWMA standard deviation"
    ELSE "ok"

\* faulty variant: the two weights swapped
ewma_new_swapped(v, m, b) ==
    DecAdd(DecMul(b, m), DecMul(DecSub(One, b), v))

\* ewma_new = beta * value + (1 - beta) * ewma
ewma_new(v, m, b) ==
    DecAdd(DecMul(b, v), DecMul(DecSub(One, b), m))

\* faulty variant: the old variance is not decayed by (1 - beta)
variance_new_undecayed(v, mNew, sd, b) ==
    DecAdd(DecMul(b, DecSq(DecSub(v, mNew))), sd.sq)

\* faulty variant: the new sample's deviation is left out of the variance
variance_new_stale(v, mNew, sd, b) ==
    DecMul(DecSub(One, b), sd.sq)

\* faulty variant: the two terms of the variance subtracted
variance_new_minus(v, mNew, sd, b) ==
    DecSub(DecMul(b, DecSq(DecSub(v, mNew))), DecMul(DecSub(One, b), sd.sq))

\* variance_new = beta * (value - ewma_new) ** 2 + (1 - beta) * ewma_std ** 2
variance_new(v, mNew, sd, b) ==
    DecAdd(DecMul(b, DecSq(DecSub(v, mNew))), DecMul(DecSub(One, b), sd.sq))

\* faulty variant: the deviation keeps its sign
deviation_signed(v, mNew) ==
    DecSub(v, mNew)

\* abs(value - ewma_new)
deviation(v, mNew) ==
    DecAbs(DecSub(v, mNew))

\* threshold = threshold_multiplier * ewma_std_new
threshold(k, sdNew) ==
    Scale(k, sdNew)

\* faulty variant: the except branch substitutes the initial state for the caller's
SwallowedReset(m, sd) ==
    [outcome |-> "returned", ewma |-> Zero, ewma_std |-> StdOf(One),
     is_anomaly |-> FALSE, log |-> "Error in anomaly detection"]

\* what the except branch hands back: the caller's own state and False
Swallowed(m, sd) ==
    [outcome |-> "returned", ewma |-> m, ewma_std |-> sd, is_anomaly |-> FALSE,
     log |-> "Error in anomaly detection"]

\* faulty variant: the variance is taken around the level before the update
anomaly_detection_old_level(v, m, sd, b, k) ==
    IF validate_params(v, m, sd, b, k) # "ok"
    THEN Swallowed(m, sd)
    ELSE LET mNew   == ewma_new(v.val, m, b)
             sdNew  == Sqrt(variance_new(v.val, m, sd, b))
             isAnom == Exceeds(deviation(v.val, mNew), threshold(k, sdNew))
         IN  [outcome |-> "returned", ewma |-> mNew, ewma_std |-> sdNew,
              is_anomaly |-> isAnom,
              log |-> IF isAnom THEN "Anomaly detected" ELSE ""]

(***************************************************************************)
(* anomaly_detection: what the call hands to its caller.  outcome is       *)
(* "returned" (a triple) or "raised" (an exception leaves the function);   *)
(* the try/except around the whole body catches every Exception, so the   *)
(* function always returns.  log is the line it prints, if any.            *)
(***************************************************************************)
anomaly_detection(v, m, sd, b, k) ==
    IF validate_params(v, m, sd, b, k) # "ok"
    THEN Swallowed(m, sd)
    ELSE LET mNew   == ewma_new(v.val, m, b)
             sdNew  == Sqrt(variance_new(v.val, mNew, sd, b))
             isAnom == Exceeds(deviation(v.val, mNew), threshold(k, sdNew))
         IN  [outcome |-> "returned", ewma |-> mNew, ewma_std |-> sdNew,
              is_anomaly |-> isAnom,
              log |-> IF isAnom THEN "Anomaly detected" ELSE ""]

(***************************************************************************)
(* Bounds and input sets.                                                  *)
(***************************************************************************)
\* calls of update explored from each initial state
MaxFrames == 2

\* calls of update explored under a constant stream
MaxConstFrames == 50

\* updates after which no constant-stream run explored flags a sample
WarmUpFrames == 5

\* main's call: beta=0.3, threshold_multiplier=1.5
MainConfig ==
    [beta |-> Dec(3, 1), k |-> Dec(15, 1)]

\* anomaly_detection's defaults: beta=0.3, threshold_multiplier=2
DefaultConfig ==
    [beta |-> Dec(3, 1), k |-> Dec(2, 0)]

ValidConfigs ==
    {MainConfig, DefaultConfig,
     [beta |-> Dec(5, 1), k |-> One],
     [beta |-> Dec(3, 1), k |-> Dec(5, 1)],
     [beta |-> Dec(25, 2), k |-> Dec(2, 0)]}

InvalidConfigs ==
    {[beta |-> Zero, k |-> Dec(15, 1)],
     [beta |-> One, k |-> Dec(15, 1)],
     [beta |-> Dec(3, 1), k |-> Zero],
     [beta |-> Dec(3, 1), k |-> Dec(-1, 0)]}

Configs ==
    ValidConfigs \cup InvalidConfigs

\* multipliers of the second detector run beside the first
AltMultipliers ==
    {Dec(15, 1), Dec(2, 0)}

\* main's initial state: ewma, ewma_std = 0, 1
MainStart ==
    [ewma |-> Zero, ewma_std |-> StdOf(One)]

ValidStarts ==
    {MainStart,
     [ewma |-> Zero, ewma_std |-> StdOf(Zero)],
     [ewma |-> Dec(10, 0), ewma_std |-> StdOf(Dec(2, 0))]}

Starts ==
    ValidStarts \cup {[ewma |-> Zero, ewma_std |-> StdOf(Dec(-1, 0))]}

\* configurations, starts and samples of the constant-stream runs
ConstConfigs ==
    {MainConfig,
     [beta |-> Dec(5, 1), k |-> One],
     [beta |-> Dec(3, 1), k |-> Dec(5, 1)]}

ConstStarts ==
    {MainStart, [ewma |-> Dec(10, 0), ewma_std |-> StdOf(Dec(2, 0))]}

ConstSamples ==
    {Num(Zero), Num(Dec(5, 0)), Num(Dec(-20, 0))}

\* deviations tried on either side of the level
Deltas ==
    {Dec(5, 1), Dec(2, 0), Dec(20, 0)}

FiniteSamples ==
    {Num(Zero), Num(Dec(2, 0)), Num(Dec(5, 0)), Num(Dec(20, 0)), Num(Dec(-20, 0))}

Samples ==
    FiniteSamples \cup {NaN, PosInf, NegInf, NotNumber}

(***************************************************************************)
(* State.  ewma, ewma_std: main's running state (nonlocal in update).      *)
(* beta, threshold_multiplier: the configuration every call is made with.  *)
(* value, is_anomaly, outcome, log: the last call's sample, flag, the way  *)
(* it came back and the line it printed.  frame: calls made so far.        *)
(* ref and alt are two more detector instances run beside the first on the *)
(* same stream: ref is handed only the calls that are valid, alt runs with *)
(* the multiplier alt.k.                                                   *)
(***************************************************************************)
VARIABLES ewma, ewma_std, beta, threshold_multiplier, value, is_anomaly,
          outcome, log, frame, ref, alt

vars ==
    <<ewma, ewma_std, beta, threshold_multiplier, value, is_anomaly,
      outcome, log, frame, ref, alt>>

\* the conditions under which a call is valid: finite sample, 0 < beta < 1,
\* multiplier > 0, spread >= 0
ValidCall(v, sd, b, k) ==
    /\ v.kind = "num"
    /\ DecLess(Zero, b) /\ DecLess(b, One)
    /\ DecLess(Zero, k)
    /\ sd.sgn >= 0

Start(cfgs, starts, alts) ==
    /\ \E c \in cfgs :
          /\ beta = c.beta
          /\ threshold_multiplier = c.k
    /\ \E s \in starts :
          /\ ewma = s.ewma
          /\ ewma_std = s.ewma_std
          /\ ref = [ewma |-> s.ewma, ewma_std |-> s.ewma_std, is_anomaly |-> FALSE]
          /\ \E k2 \in alts :
                alt = [k |-> k2, ewma |-> s.ewma, ewma_std |-> s.ewma_std,
                       is_anomaly |-> FALSE]
    /\ value = NoSample
    /\ is_anomaly = FALSE
    /\ outcome = "none"
    /\ log = ""
    /\ frame = 0

Init ==
    Start(Configs, Starts, AltMultipliers)

\* main.update: fetch the next sample, run the detection, keep what it returns
update(v) ==
    \E r  \in {anomaly_detection(v, ewma, ewma_std, beta, threshold_multiplier)},
       r1 \in {anomaly_detection(v, ref.ewma, ref.ewma_std, beta, threshold_multiplier)},
       r2 \in {anomaly_detection(v, alt.ewma, alt.ewma_std, beta, alt.k)} :
        /\ value' = v
        /\ outcome' = r.outcome
        /\ log' = r.log
        /\ IF r.outcome = "returned"
           THEN /\ ewma' = r.ewma
                /\ ewma_std' = r.ewma_std
                /\ is_anomaly' = r.is_anomaly
           ELSE UNCHANGED <<ewma, ewma_std, is_anomaly>>
        /\ alt' = IF r2.outcome = "returned"
                  THEN [alt EXCEPT !.ewma = r2.ewma, !.ewma_std = r2.ewma_std,
                                   !.is_anomaly = r2.is_anomaly]
                  ELSE alt
        /\ ref' = IF ValidCall(v, ref.ewma_std, beta, threshold_multiplier)
                     /\ r1.outcome = "returned"
                  THEN [ewma |-> r1.ewma, ewma_std |-> r1.ewma_std,
                        is_anomaly |-> r1.is_anomaly]
                  ELSE ref
        /\ frame' = frame + 1
        /\ UNCHANGED <<beta, threshold_multiplier>>

Next ==
    \E v \in Samples : frame < MaxFrames /\ update(v)

Spec ==
    Init /\ [][Next]_vars

\* the same detector under a constant stream: every sample equals the first
InitConst ==
    Start(ConstConfigs, ConstStarts, {Dec(2, 0)})

NextConst ==
    \E v \in ConstSamples :
        /\ frame < MaxConstFrames
        /\ frame = 0 \/ v = value
        /\ update(v)

SpecConst ==
    InitConst /\ [][NextConst]_vars

(***************************************************************************)
(* Vocabulary of the properties.                                           *)
(***************************************************************************)
ValidConfig ==
    /\ DecLess(Zero, beta) /\ DecLess(beta, One)
    /\ DecLess(Zero, threshold_multiplier)

\* the call about to be made (the step's sample is value') is valid
CallValid ==
    ValidCall(value', ewma_std, beta, threshold_multiplier)

\* a real, non-negative standard deviation
NonNegative(sd) ==
    sd.sgn >= 0 /\ ~sd.sq.neg

\* the last call was valid: after it the spread is non-negative, and a call
\* refused for a negative spread leaves it negative
LastCallValid ==
    /\ frame > 0
    /\ ValidCall(value, ewma_std, beta, threshold_multiplier)

(***************************************************************************)
(* C1 (as claimed): a call of update with an invalid sample or an invalid  *)
(* configuration comes back to its caller as an error, never as an         *)
(* ordinary result triple.                                                 *)
(***************************************************************************)
C1_InvalidCallRaises ==
    [][(frame' = frame + 1 /\ ~CallValid) => outcome' = "raised"]_vars

(***************************************************************************)
(* C2: a call that fails validation leaves (level, spread) untouched, so   *)
(* the detector fed the whole stream is, after every call, in the state of *)
(* the detector fed the valid calls only, and agrees with it on the flag   *)
(* of every valid call.                                                    *)
(***************************************************************************)
C2_InvalidCallsLeaveNoTrace ==
    /\ ewma = ref.ewma
    /\ ewma_std = ref.ewma_std
    /\ LastCallValid => is_anomaly = ref.is_anomaly

\* update(NaN), update(5) from main's start under main's configuration:
\* level 1.5, variance 0.3 * 3.5^2 + 0.7 * 1 = 4.375, as update(5) alone
C2_Witness ==
    /\ frame = 2
    /\ beta = MainConfig.beta /\ threshold_multiplier = MainConfig.k
    /\ value = Num(Dec(5, 0))
    /\ ewma = Dec(15, 1)
    /\ ewma_std = Sqrt(Dec(4375, 3))

(***************************************************************************)
(* C3: under a valid configuration a non-negative spread stays             *)
(* non-negative across every call of update, valid or not: the spread      *)
(* returned and kept is a real number >= 0.                                *)
(***************************************************************************)
C3_SpreadNonNegative ==
    [][(ValidConfig /\ NonNegative(ewma_std)) => NonNegative(ewma_std')]_vars

\* a valid call then an invalid one: update(0), update(NaN) from main's start
C3_Witness ==
    /\ frame = 2
    /\ ValidConfig
    /\ value = NaN
    /\ ewma_std = Sqrt(Dec(7, 1))

(***************************************************************************)
(* C4: a valid call computes level' = beta*sample + (1-beta)*level, then   *)
(* variance' = beta*(sample - level')^2 + (1-beta)*spread^2 around the     *)
(* updated level, keeps (level', sqrt(variance')) with the non-negative    *)
(* root, and flags exactly when (sample - level')^2 > k^2 * variance'.     *)
(* Scenario 2 (beta=0.3, k=1.5, level=0, spread=1, sample=20) gives        *)
(* level' = 6, the stated variance', and isAnomaly = true.                 *)
(***************************************************************************)
C4_General ==
    LET v == value'.val
        b == beta
        k == threshold_multiplier
    IN  /\ outcome' = "returned"
        /\ ewma' = DecAdd(DecMul(b, v), DecMul(DecSub(One, b), ewma))
        /\ ewma_std'.sq = DecAdd(DecMul(b, DecSq(DecSub(v, ewma'))),
                                 DecMul(DecSub(One, b), ewma_std.sq))
        /\ ewma_std'.sgn = (IF ewma_std'.sq = Zero THEN 0 ELSE 1)
        /\ is_anomaly' = DecLess(DecMul(DecSq(k), ewma_std'.sq), DecSq(DecSub(v, ewma')))

C4_Scenario2(variance) ==
    ( /\ beta = MainConfig.beta /\ threshold_multiplier = MainConfig.k
      /\ ewma = Zero /\ ewma_std = StdOf(One)
      /\ value' = Num(Dec(20, 0)) )
    => /\ ewma' = Dec(6, 0)
       /\ ewma_std' = Sqrt(variance)
       /\ is_anomaly'

\* C4 as claimed: a valid call does the above and Scenario 2 gives variance' = 58.9
C4_AsClaimed ==
    [][(frame' = frame + 1 /\ CallValid) => (C4_General /\ C4_Scenario2(Dec(589, 1)))]_vars

\* C4 amended: a valid call does the above and Scenario 2 gives
\* variance' = 0.3 * 14^2 + 0.7 * 1 = 59.5
C4_Update ==
    [][(frame' = frame + 1 /\ CallValid) => (C4_General /\ C4_Scenario2(Dec(595, 1)))]_vars

C4_Witness ==
    /\ frame = 1
    /\ beta = MainConfig.beta /\ threshold_multiplier = MainConfig.k
    /\ value = Num(Dec(20, 0))
    /\ ewma = Dec(6, 0)
    /\ ewma_std = Sqrt(Dec(595, 1))
    /\ is_anomaly

(***************************************************************************)
(* C5: Scenario 1.  With beta=0.3, k=1.5 and state level=0, spread=1,      *)
(* update(0) returns level'=0, the stated spread' and isAnomaly=False,     *)
(* and that is the state it leaves.                                        *)
(***************************************************************************)
C5_Scenario1(spread) ==
    ( /\ beta = MainConfig.beta /\ threshold_multiplier = MainConfig.k
      /\ ewma = Zero /\ ewma_std = StdOf(One)
      /\ value' = Num(Zero) /\ frame' = frame + 1 )
    => /\ outcome' = "returned"
       /\ ewma' = Zero
       /\ ewma_std' = spread
       /\ ~is_anomaly'

\* C5 as claimed: Scenario 1 returns and keeps level' = 0, spread' = 1, no flag
C5_AsClaimed ==
    [][C5_Scenario1(StdOf(One))]_vars

\* C5 amended: Scenario 1 returns and keeps level' = 0, spread' = sqrt(0.7)
\* (variance' = 0.3 * 0 + 0.7 * 1 = 0.7), no flag
C5_UpdateZero ==
    [][C5_Scenario1(Sqrt(Dec(7, 1)))]_vars

C5_Witness ==
    /\ frame = 1
    /\ beta = MainConfig.beta /\ threshold_multiplier = MainConfig.k
    /\ value = Num(Zero)
    /\ ewma = Zero
    /\ ewma_std = Sqrt(Dec(7, 1))
    /\ ~is_anomaly

(***************************************************************************)
(* C6: the test is strict.  After a valid call whose sample lies exactly   *)
(* on the boundary, (sample - level')^2 = k^2 * variance', the sample is   *)
(* not flagged; in particular not when sample = level' and spread' = 0.    *)
(***************************************************************************)
OnBoundary ==
    DecSq(DecSub(value.val, ewma)) = DecMul(DecSq(threshold_multiplier), ewma_std.sq)

\* C6: a sample exactly on the boundary is not flagged
C6_BoundaryNotFlagged ==
    /\ (LastCallValid /\ OnBoundary) => ~is_anomaly
    /\ (LastCallValid /\ value.val = ewma /\ ewma_std.sgn = 0) => ~is_anomaly

\* a sample exactly k * spread' away from level', spread' > 0
C6_Witness ==
    /\ LastCallValid
    /\ OnBoundary
    /\ ewma_std.sgn = 1
    /\ value.val # ewma

(***************************************************************************)
(* C7: detection is symmetric in the sign of the deviation.  From every    *)
(* valid state, update(level + d) and update(level - d) return the same    *)
(* spread' and the same isAnomaly, and levels level + beta*d and           *)
(* level - beta*d.                                                         *)
(***************************************************************************)
Above(d) ==
    anomaly_detection(Num(DecAdd(ewma, d)), ewma, ewma_std, beta, threshold_multiplier)

Below(d) ==
    anomaly_detection(Num(DecSub(ewma, d)), ewma, ewma_std, beta, threshold_multiplier)

\* C7: deviations +d and -d from the level get the same spread' and flag,
\* and mirrored levels
C7_Symmetric ==
    (ValidConfig /\ NonNegative(ewma_std)) =>
        \A d \in Deltas :
            /\ Above(d).ewma_std = Below(d).ewma_std
            /\ Above(d).is_anomaly = Below(d).is_anomaly
            /\ Above(d).ewma = DecAdd(ewma, DecMul(beta, d))
            /\ Below(d).ewma = DecSub(ewma, DecMul(beta, d))

\* a state reached by a valid call from which one deviation is flagged on
\* both sides and another on neither
C7_Witness ==
    /\ LastCallValid
    /\ \E d \in Deltas : Above(d).is_anomaly /\ Below(d).is_anomaly
    /\ \E d \in Deltas : ~Above(d).is_anomaly /\ ~Below(d).is_anomaly

(***************************************************************************)
(* C9: lowering the multiplier never removes a detection.  Two detectors   *)
(* with the same beta and start, fed the same samples, with multipliers    *)
(* 0 < k1 <= k2, hold the same (level, spread) after every call, and every *)
(* sample the k2 detector flags the k1 detector flags too.                 *)
(***************************************************************************)
C9_LowerMultiplierKeepsDetections ==
    (ValidConfig /\ DecLeq(threshold_multiplier, alt.k)) =>
        /\ alt.ewma = ewma
        /\ alt.ewma_std = ewma_std
        /\ alt.is_anomaly => is_anomaly

\* a sample flagged under both multipliers, k1 < k2
C9_Witness ==
    /\ LastCallValid
    /\ DecLess(threshold_multiplier, alt.k)
    /\ alt.is_anomaly
    /\ is_anomaly

(***************************************************************************)
(* C10: the sample's own deviation is part of variance', so a sample can   *)
(* be flagged only when k^2 * beta < 1; with k^2 * beta >= 1, as with      *)
(* anomaly_detection's defaults (beta=0.3, threshold_multiplier=2), no     *)
(* sample is ever flagged.                                                 *)
(***************************************************************************)
C10_FlagNeedsSmallMultiplier ==
    /\ is_anomaly => DecLess(DecMul(DecSq(threshold_multiplier), beta), One)
    /\ (beta = DefaultConfig.beta /\ threshold_multiplier = DefaultConfig.k) => ~is_anomaly

\* the defaults let through the sample main's multiplier flags (Scenario 2)
C10_Witness ==
    /\ frame = 1
    /\ beta = DefaultConfig.beta /\ threshold_multiplier = DefaultConfig.k
    /\ value = Num(Dec(20, 0))
    /\ ewma = Dec(6, 0)
    /\ ewma_std = Sqrt(Dec(595, 1))
    /\ ~is_anomaly

(***************************************************************************)
(* C8: under a constant stream v every update multiplies level - v by      *)
(* exactly (1 - beta), so the level closes in on v from its own side and   *)
(* never crosses it; spread^2 + (1-beta)*(level - v)^2 is multiplied by    *)
(* exactly (1 - beta) too, so the spread tends to 0; a sample not flagged  *)
(* is never followed by a flagged one, and none is flagged after the first *)
(* WarmUpFrames updates (after the first update under main's beta=0.3,     *)
(* k=1.5, as in Scenario 3's 50 iterations).                               *)
(***************************************************************************)
Energy(m, sd, v, b) ==
    DecAdd(sd.sq, DecMul(DecSub(One, b), DecSq(DecSub(m, v))))

C8_Step ==
    LET v    == value'.val
        keep == DecSub(One, beta)
        gap  == DecSub(ewma, v)
        gapN == DecSub(ewma', v)
    IN  /\ gapN = DecMul(keep, gap)
        /\ DecLeq(DecAbs(gapN), DecAbs(gap))
        /\ gap # Zero => (gapN # Zero /\ gapN.neg = gap.neg)
        /\ Energy(ewma', ewma_std', v, beta) = DecMul(keep, Energy(ewma, ewma_std, v, beta))
        /\ NonNegative(ewma_std')
        /\ (frame >= 1 /\ ~is_anomaly) => ~is_anomaly'
        /\ frame' > WarmUpFrames => ~is_anomaly'
        /\ (beta = MainConfig.beta /\ threshold_multiplier = MainConfig.k /\ frame' >= 2)
              => ~is_anomaly'

\* C8: every update of a constant-stream run contracts as C8_Step states
C8_ConstantStreamConverges ==
    [][frame' = frame + 1 => C8_Step]_vars

\* the end of Scenario 3: 50 updates with 5.0 from level 0, spread 1 leave the
\* level below 5 and within 1e-6 of it, the spread within 1e-3 of 0, no flag
C8_Witness ==
    /\ frame = MaxConstFrames
    /\ beta = MainConfig.beta /\ threshold_multiplier = MainConfig.k
    /\ value = Num(Dec(5, 0))
    /\ DecLess(ewma, Dec(5, 0))
    /\ DecLess(DecSub(Dec(5, 0), ewma), Dec(1, 6))
    /\ ewma_std.sgn = 1
    /\ DecLess(ewma_std.sq, Dec(1, 6))
    /\ ~is_anomaly

====
